---------------------------- MODULE Spec2Model ----------------------------
(***************************************************************************)
(* Model of generate_modules.py, the PARVYOM Metanode module page          *)
(* generator: the extraction functions (extract_overview,                  *)
(* extract_features, extract_api_endpoints, markdown_to_html), the page    *)
(* renderer (create_module_page) and the driver loop (main).               *)
(*                                                                         *)
(* A Python str is a sequence of one-character strings; positions are      *)
(* 0-based as in Python (Find, Slice).                                     *)
(***************************************************************************)
EXTENDS Integers, Sequences, FiniteSets, TLC

VARIABLES
    \* the filesystem under docs_dir: what the driver reads
    srcExists,        \* srcExists[i]: os.path.exists(docs_dir/<id>)
    readme,           \* readme[i]: NoFile, or the text of docs_dir/<id>/README.md
    \* the filesystem under output_dir: what the driver writes
    outDir,           \* outDir[i]: output_dir/<id> exists
    outFile,          \* outFile[i]: NoFile, or the content of output_dir/<id>/index.html
    \* main(): its locals, its position and its console output
    pc, idx, generated_count, html_content, console, run,
    \* history of the current run and the result of the previous one
    examined, written, outAtStart, prevRun, failedAt,
    \* the per-module positions and locals of the interleaved loop bodies
    ppc, phtml,
    \* one call of each extraction function on a document text
    content, overview, features, api_endpoints, applied

vars ==
    <<srcExists, readme, outDir, outFile, pc, idx, generated_count,
      html_content, console, run, examined, written, outAtStart, prevRun,
      failedAt, ppc, phtml, content, overview, features, api_endpoints,
      applied>>

fsVars ==
    <<srcExists, readme, outDir, outFile>>

mainVars ==
    <<pc, idx, generated_count, html_content, console, run, examined,
      written, outAtStart, prevRun, failedAt>>

parVars ==
    <<ppc, phtml>>

fnVars ==
    <<content, overview, features, api_endpoints, applied>>

----------------------------------------------------------------------------
(* Bounds of the model.                                                    *)

\* the driver is modelled on the first NumModules entries of MODULE_MAPPING
NumModules ==
    2

\* main() is run at most MaxRuns times in succession
MaxRuns ==
    2

\* a document text is a concatenation of at most MaxPieces pieces
MaxPieces ==
    3

----------------------------------------------------------------------------
(* String literals of the program.                                         *)

\* OVERVIEW_MARKER = '## Overview'
OVERVIEW_MARKER ==
    <<"#","#"," ","O","v","e","r","v","i","e","w">>

\* HEADER_MARK = '##'
HEADER_MARK ==
    <<"#","#">>

\* OVERVIEW_FALLBACK = '<p>Comprehensive system documentation available in the repository.</p>'
OVERVIEW_FALLBACK ==
    <<"<","p",">","C","o","m","p","r","e","h","e","n","s","i","v","e"," ",
      "s","y","s","t","e","m"," ","d","o","c","u","m","e","n","t","a","t",
      "i","o","n"," ","a","v","a","i","l","a","b","l","e"," ","i","n"," ",
      "t","h","e"," ","r","e","p","o","s","i","t","o","r","y",".","<","/",
      "p",">">>

\* KEY_FEATURES_MARKER = '## Key Features'
KEY_FEATURES_MARKER ==
    <<"#","#"," ","K","e","y"," ","F","e","a","t","u","r","e","s">>

\* FEATURES_MARKER = '### Features'
FEATURES_MARKER ==
    <<"#","#","#"," ","F","e","a","t","u","r","e","s">>

\* FEATURES_OPEN = "<div class='features-list'>"
FEATURES_OPEN ==
    <<"<","d","i","v"," ","c","l","a","s","s","=","'","f","e","a","t","u",
      "r","e","s","-","l","i","s","t","'",">">>

\* FEATURES_ADVANCED = '<p>Advanced features and capabilities documented in detail.</p>'
FEATURES_ADVANCED ==
    <<"<","p",">","A","d","v","a","n","c","e","d"," ","f","e","a","t","u",
      "r","e","s"," ","a","n","d"," ","c","a","p","a","b","i","l","i","t",
      "i","e","s"," ","d","o","c","u","m","e","n","t","e","d"," ","i","n",
      " ","d","e","t","a","i","l",".","<","/","p",">">>

\* FEATURES_FALLBACK = '<p>Production-ready features with enterprise-grade capabilities.</p>'
FEATURES_FALLBACK ==
    <<"<","p",">","P","r","o","d","u","c","t","i","o","n","-","r","e","a",
      "d","y"," ","f","e","a","t","u","r","e","s"," ","w","i","t","h"," ",
      "e","n","t","e","r","p","r","i","s","e","-","g","r","a","d","e"," ",
      "c","a","p","a","b","i","l","i","t","i","e","s",".","<","/","p",">">>

\* DIV_CLOSE = '</div>'
DIV_CLOSE ==
    <<"<","/","d","i","v",">">>

\* API_OPEN = "<div class='api-endpoints'>"
API_OPEN ==
    <<"<","d","i","v"," ","c","l","a","s","s","=","'","a","p","i","-","e",
      "n","d","p","o","i","n","t","s","'",">">>

\* API_WORD = 'API'
API_WORD ==
    <<"A","P","I">>

\* ENDPOINT_WORD = 'ENDPOINT'
ENDPOINT_WORD ==
    <<"E","N","D","P","O","I","N","T">>

\* API_COMPLETE = '<p>Complete API documentation with endpoints, parameters, and examples.</p>'
API_COMPLETE ==
    <<"<","p",">","C","o","m","p","l","e","t","e"," ","A","P","I"," ","d",
      "o","c","u","m","e","n","t","a","t","i","o","n"," ","w","i","t","h",
      " ","e","n","d","p","o","i","n","t","s",","," ","p","a","r","a","m",
      "e","t","e","r","s",","," ","a","n","d"," ","e","x","a","m","p","l",
      "e","s",".","<","/","p",">">>

\* API_FALLBACK = '<p>API documentation available in the comprehensive module documentation.</p>'
API_FALLBACK ==
    <<"<","p",">","A","P","I"," ","d","o","c","u","m","e","n","t","a","t",
      "i","o","n"," ","a","v","a","i","l","a","b","l","e"," ","i","n"," ",
      "t","h","e"," ","c","o","m","p","r","e","h","e","n","s","i","v","e",
      " ","m","o","d","u","l","e"," ","d","o","c","u","m","e","n","t","a",
      "t","i","o","n",".","<","/","p",">">>

\* H3_PREFIX = '### '
H3_PREFIX ==
    <<"#","#","#"," ">>

\* H3_OPEN = '<h3>'
H3_OPEN ==
    <<"<","h","3",">">>

\* H3_CLOSE = '</h3>'
H3_CLOSE ==
    <<"<","/","h","3",">">>

\* H2_PREFIX = '## '
H2_PREFIX ==
    <<"#","#"," ">>

\* H2_OPEN = '<h2>'
H2_OPEN ==
    <<"<","h","2",">">>

\* H2_CLOSE = '</h2>'
H2_CLOSE ==
    <<"<","/","h","2",">">>

\* P_OPEN = '<p>'
P_OPEN ==
    <<"<","p",">">>

\* P_CLOSE = '</p>'
P_CLOSE ==
    <<"<","/","p",">">>

\* NL = '\n'
NL ==
    <<"\n">>

\* BLANK_LINE = '\n\n'
BLANK_LINE ==
    <<"\n","\n">>

\* LT = '<'
LT ==
    <<"<">>

----------------------------------------------------------------------------
(* Python str operations.                                                  *)

Min(S) ==
    CHOOSE x \in S : \A y \in S : x <= y

\* s[i:i+len(sub)] == sub
MatchAt(s, sub, i) ==
    /\ i >= 0
    /\ i + Len(sub) <= Len(s)
    /\ \A k \in 1..Len(sub) : s[i + k] = sub[k]

\* s.find(sub, from): the lowest index >= from where sub occurs, or -1
Find(s, sub, from) ==
    LET hits == {i \in from..(Len(s) - Len(sub)) : MatchAt(s, sub, i)}
    IN  IF hits = {} THEN -1 ELSE Min(hits)

\* sub in s
Contains(s, sub) ==
    Find(s, sub, 0) # -1

\* s[a:b] for 0 <= a <= b <= len(s)
Slice(s, a, b) ==
    SubSeq(s, a + 1, b)

\* s.startswith(pre)
StartsWith(s, pre) ==
    MatchAt(s, pre, 0)

\* s.replace(old, new): every non-overlapping occurrence, left to right
RECURSIVE Replace(_, _, _)
Replace(s, old, new) ==
    LET i == Find(s, old, 0)
    IN  IF i = -1
        THEN s
        ELSE Slice(s, 0, i) \o new
             \o Replace(Slice(s, i + Len(old), Len(s)), old, new)

\* the characters str.strip() removes
Whitespace ==
    {" ", "\n", "\t", "\r", "\f"}

\* s.strip()
Strip(s) ==
    LET keep == {i \in 1..Len(s) : s[i] \notin Whitespace}
    IN  IF keep = {}
        THEN << >>
        ELSE SubSeq(s, Min(keep), CHOOSE j \in keep : \A k \in keep : k <= j)

\* s.split(sep): the list of the parts between the occurrences of sep
RECURSIVE Split(_, _)
Split(s, sep) ==
    LET i == Find(s, sep, 0)
    IN  IF i = -1
        THEN <<s>>
        ELSE <<Slice(s, 0, i)>> \o Split(Slice(s, i + Len(sep), Len(s)), sep)

\* sep.join(parts)
RECURSIVE Join(_, _)
Join(parts, sep) ==
    IF Len(parts) = 0 THEN << >>
    ELSE IF Len(parts) = 1 THEN parts[1]
    ELSE parts[1] \o sep \o Join(Tail(parts), sep)

LowerCase ==
    <<"a","b","c","d","e","f","g","h","i","j","k","l","m",
      "n","o","p","q","r","s","t","u","v","w","x","y","z">>

UpperCase ==
    <<"A","B","C","D","E","F","G","H","I","J","K","L","M",
      "N","O","P","Q","R","S","T","U","V","W","X","Y","Z">>

\* c.upper() of one ASCII character
UpperChar(c) ==
    IF \E k \in 1..26 : LowerCase[k] = c
    THEN UpperCase[CHOOSE k \in 1..26 : LowerCase[k] = c]
    ELSE c

\* s.upper()
Upper(s) ==
    [k \in 1..Len(s) |-> UpperChar(s[k])]

----------------------------------------------------------------------------
(* The converter and the extractors.                                       *)

\* re.sub(r'^<prefix>(.*)', r'<open>\1<close>', text, flags=re.MULTILINE):
\* ^ matches at the start of every line and .* runs to the end of the line
HeaderSub(text, prefix, open, close) ==
    LET lines == Split(text, NL)
        conv(l) == IF StartsWith(l, prefix)
                   THEN open \o Slice(l, Len(prefix), Len(l)) \o close
                   ELSE l
    IN  Join([k \in 1..Len(lines) |-> conv(lines[k])], NL)

\* one iteration of the paragraph loop of markdown_to_html
WrapParagraph(p) ==
    IF Strip(p) # << >> /\ ~StartsWith(p, LT)
    THEN P_OPEN \o Strip(p) \o P_CLOSE
    ELSE p

markdown_to_html(text) ==
    LET t1 == HeaderSub(text, H3_PREFIX, H3_OPEN, H3_CLOSE)
        t2 == HeaderSub(t1, H2_PREFIX, H2_OPEN, H2_CLOSE)
        paragraphs == Split(t2, BLANK_LINE)
    IN  Join([k \in 1..Len(paragraphs) |-> WrapParagraph(paragraphs[k])], NL)

\* content[start:end] of extract_overview, the marker being present
OverviewSection(c) ==
    LET start == Find(c, OVERVIEW_MARKER, 0)
        e == Find(c, HEADER_MARK, start + 1)
        end == IF e = -1 THEN Len(c) ELSE e
    IN  Slice(c, start, end)

\* extract_overview without the .strip() of the section
extract_overview_unstripped(c) ==
    IF Contains(c, OVERVIEW_MARKER)
    THEN markdown_to_html(Replace(OverviewSection(c), OVERVIEW_MARKER, << >>))
    ELSE OVERVIEW_FALLBACK

\* extract_overview searching the end with content.find("##", start): the
\* marker itself is found and the section is empty
extract_overview_endAtStart(c) ==
    IF Contains(c, OVERVIEW_MARKER)
    THEN LET start == Find(c, OVERVIEW_MARKER, 0)
             end == Find(c, HEADER_MARK, start)
         IN  markdown_to_html(
                 Strip(Replace(Slice(c, start, end), OVERVIEW_MARKER, << >>)))
    ELSE OVERVIEW_FALLBACK

extract_overview(c) ==
    IF Contains(c, OVERVIEW_MARKER)
    THEN markdown_to_html(Strip(Replace(OverviewSection(c), OVERVIEW_MARKER, << >>)))
    ELSE OVERVIEW_FALLBACK

extract_features(c) ==
    FEATURES_OPEN
    \o (IF Contains(c, KEY_FEATURES_MARKER) \/ Contains(c, FEATURES_MARKER)
        THEN FEATURES_ADVANCED
        ELSE FEATURES_FALLBACK)
    \o DIV_CLOSE

\* extract_api_endpoints without .upper(): a case-sensitive test
extract_api_endpoints_caseSensitive(c) ==
    API_OPEN
    \o (IF Contains(c, API_WORD) \/ Contains(c, ENDPOINT_WORD)
        THEN API_COMPLETE
        ELSE API_FALLBACK)
    \o DIV_CLOSE

\* extract_api_endpoints with the test written
\* `"API" in content.upper() or "ENDPOINT"`, which is always true
extract_api_endpoints_alwaysTrue(c) ==
    API_OPEN \o API_COMPLETE \o DIV_CLOSE

extract_api_endpoints(c) ==
    API_OPEN
    \o (IF Contains(Upper(c), API_WORD) \/ Contains(Upper(c), ENDPOINT_WORD)
        THEN API_COMPLETE
        ELSE API_FALLBACK)
    \o DIV_CLOSE

----------------------------------------------------------------------------
(* The document texts the extraction functions are applied to.             *)

\* the pieces a document text is built from
Pieces ==
    {
    \* '## Overview'
    <<"#","#"," ","O","v","e","r","v","i","e","w">>,
    \* '\n'
    <<"\n">>,
    \* '##'
    <<"#","#">>,
    \* '#'
    <<"#">>,
    \* ' '
    <<" ">>,
    \* 'This system does X.'
    <<"T","h","i","s"," ","s","y","s","t","e","m"," ","d","o","e","s"," ",
      "X",".">>,
    \* '## Other'
    <<"#","#"," ","O","t","h","e","r">>,
    \* '<'
    <<"<">>,
    \* 'api'
    <<"a","p","i">>,
    \* 'Endpoint'
    <<"E","n","d","p","o","i","n","t">>,
    \* 'Comprehensive system documentation available in the repository.'
    <<"C","o","m","p","r","e","h","e","n","s","i","v","e"," ","s","y","s",
      "t","e","m"," ","d","o","c","u","m","e","n","t","a","t","i","o","n",
      " ","a","v","a","i","l","a","b","l","e"," ","i","n"," ","t","h","e",
      " ","r","e","p","o","s","i","t","o","r","y",".">>,
    \* '### Features'
    <<"#","#","#"," ","F","e","a","t","u","r","e","s">>
    }

\* '## Overview\nThis system does X.\n\n## Other'
ScenarioDoc ==
    <<"#","#"," ","O","v","e","r","v","i","e","w","\n","T","h","i","s"," ",
      "s","y","s","t","e","m"," ","d","o","e","s"," ","X",".","\n","\n","#",
      "#"," ","O","t","h","e","r">>

\* '<h2>Overview</h2>\n<p>This system does X.</p>'
ScenarioClaimed ==
    <<"<","h","2",">","O","v","e","r","v","i","e","w","<","/","h","2",">",
      "\n","<","p",">","T","h","i","s"," ","s","y","s","t","e","m"," ","d",
      "o","e","s"," ","X",".","<","/","p",">">>

\* 'Overview'
OVERVIEW_WORD ==
    <<"O","v","e","r","v","i","e","w">>

\* 'Comprehensive system documentation available in the repository.'
FallbackText ==
    <<"C","o","m","p","r","e","h","e","n","s","i","v","e"," ","s","y","s",
      "t","e","m"," ","d","o","c","u","m","e","n","t","a","t","i","o","n",
      " ","a","v","a","i","l","a","b","l","e"," ","i","n"," ","t","h","e",
      " ","r","e","p","o","s","i","t","o","r","y",".">>

\* 'This system does X.'
ScenarioSentence ==
    <<"T","h","i","s"," ","s","y","s","t","e","m"," ","d","o","e","s"," ",
      "X",".">>

\* the concatenations of n pieces
RECURSIVE Built(_)
Built(n) ==
    IF n = 0 THEN {<< >>}
    ELSE {d \o p : d \in Built(n - 1), p \in Pieces}

Docs ==
    UNION {Built(n) : n \in 0..MaxPieces} \cup {ScenarioDoc}

----------------------------------------------------------------------------
(* The filesystem values and the module table.                             *)

NoFile ==
    [kind |-> "NoFile"]

\* the content of an index.html left by something other than this program
Stale ==
    [kind |-> "Stale"]

\* html_content before the first page is generated
NoPage ==
    [kind |-> "NoPage"]

\* the folder names of MODULE_MAPPING, in table order
FolderNames ==
    <<"01-firstuse", "02-toolkit", "03-httpcg-client", "04-httpcg-gateway",
      "05-docklock-enc-orchestration", "10-bpi-core", "11-bpi-ledger",
      "25-merkle-trees", "27-network-protocols", "31-security-auditing",
      "32-performance-optimization", "33-operations-maintenance",
      "34-compliance-regulatory", "39-iot-edge-computing",
      "40-blockchain-infrastructure">>

\* module_info['title'] of each entry
Titles ==
    <<"First Use Guide", "Development Toolkit", "HttpCG Client",
      "HttpCG Gateway", "DockLock ENC Orchestration", "BPI Core System",
      "BPI Ledger", "Merkle Trees", "Network Protocols", "Security Auditing",
      "Performance Optimization", "Operations & Maintenance",
      "Compliance & Regulatory", "IoT & Edge Computing",
      "Blockchain Infrastructure">>

\* the table entries the driver iterates over
Modules ==
    1..NumModules

\* folder_name of table entry i
FolderName(i) ==
    FolderNames[i]

\* doc_path built without the folder name of the entry
DocPathShared(i) ==
    FolderName(1)

\* doc_path = os.path.join(docs_dir, folder_name), relative to docs_dir
DocPath(i) ==
    FolderName(i)

\* module_dir built without the folder name of the entry
ModuleDirShared(i) ==
    FolderName(1)

\* module_dir = os.path.join(output_dir, folder_name.replace('-', '-')),
\* relative to output_dir: the replacement of '-' by '-' changes nothing
ModuleDir(i) ==
    FolderName(i)

\* the paths below docs_dir and output_dir that the model keeps
Paths ==
    {FolderName(i) : i \in Modules}

\* a README.md holding the text t
TextFile(t) ==
    [kind |-> "text", text |-> t]

\* the README.md files a source folder may hold
ReadmeFiles ==
    {TextFile(<< >>), TextFile(ScenarioDoc)}

\* an index.html cut short by a failed write
Partial ==
    [kind |-> "Partial"]

\* the text create_module_page extracts from: "" unless README.md exists
ReadContent(r) ==
    IF r # NoFile THEN r.text ELSE << >>

\* the three fragments create_module_page extracts, for each state of
\* README.md the model lets a source folder be in
Extracted ==
    [r \in ReadmeFiles \cup {NoFile} |->
        [overview |-> extract_overview(ReadContent(r)),
         features |-> extract_features(ReadContent(r)),
         api_endpoints |-> extract_api_endpoints(ReadContent(r))]]

\* the page of table entry i for the README state r: the values the template
\* interpolates (description, icon and category are fixed by the entry)
create_module_page(i, r) ==
    [kind |-> "page",
     entry |-> FolderName(i),
     title |-> Titles[i],
     overview |-> Extracted[r].overview,
     features |-> Extracted[r].features,
     api_endpoints |-> Extracted[r].api_endpoints]

\* the file after open(output_file, 'a') and f.write(html): mode 'a' appends
FileAfterAppend(old, html) ==
    IF old = NoFile THEN html
    ELSE [kind |-> "appended", first |-> old, then |-> html]

\* the file after open(output_file, 'w') and f.write(html): mode 'w' truncates
FileAfterWrite(old, html) ==
    html

\* the console lines
Generated(i) ==
    [kind |-> "Generated", what |-> Titles[i]]

Missing(i) ==
    [kind |-> "Missing", what |-> FolderName(i)]

SummaryLine(n) ==
    [kind |-> "Summary", what |-> n]

\* generated_count = 0
InitialCount ==
    0

NoRun ==
    [completed |-> FALSE]

\* failedAt while no exception has been raised
NoFailure ==
    [entry |-> 0, step |-> "none"]

----------------------------------------------------------------------------
(* The states of the filesystem before the program runs.                   *)

\* a README.md exists only inside an existing source folder
SourceStates ==
    {[exists |-> FALSE, readme |-> NoFile]}
    \cup {[exists |-> TRUE, readme |-> r] : r \in ReadmeFiles \cup {NoFile}}

\* an index.html exists only inside an existing output directory
OutputStates ==
    {[dir |-> FALSE, file |-> NoFile], [dir |-> TRUE, file |-> NoFile],
     [dir |-> TRUE, file |-> Stale]}

InitFs ==
    \E src \in [Paths -> SourceStates], out \in [Paths -> OutputStates] :
        /\ srcExists = [p \in Paths |-> src[p].exists]
        /\ readme = [p \in Paths |-> src[p].readme]
        /\ outDir = [p \in Paths |-> out[p].dir]
        /\ outFile = [p \in Paths |-> out[p].file]

InitMainVars ==
    /\ pc = "start"
    /\ idx = 0
    /\ generated_count = 0
    /\ html_content = NoPage
    /\ console = << >>
    /\ run = 1
    /\ examined = {}
    /\ written = [p \in Paths |-> 0]
    /\ outAtStart = [dir |-> outDir, file |-> outFile]
    /\ prevRun = NoRun
    /\ failedAt = NoFailure

InitParVars ==
    /\ ppc = [i \in Modules |-> "idle"]
    /\ phtml = [i \in Modules |-> NoPage]

InitFnVars ==
    /\ content = << >>
    /\ overview = << >>
    /\ features = << >>
    /\ api_endpoints = << >>
    /\ applied = {}

Init ==
    /\ InitFs
    /\ InitMainVars
    /\ InitParVars
    /\ InitFnVars

----------------------------------------------------------------------------
(* main(): the driver loop, one action per step of the loop body.          *)

\* main() is entered: generated_count = 0 and the loop starts at the first
\* entry of the table
Start ==
    /\ pc = "start"
    /\ generated_count' = InitialCount
    /\ idx' = 1
    /\ html_content' = NoPage
    /\ pc' = "loop"
    /\ UNCHANGED <<console, run, examined, written, outAtStart, prevRun,
                   failedAt>>
    /\ UNCHANGED <<fsVars, parVars, fnVars>>

\* os.path.exists(doc_path) is true
CheckPresent ==
    /\ pc = "loop"
    /\ idx <= NumModules
    /\ srcExists[DocPath(idx)]
    /\ examined' = examined \cup {idx}
    /\ pc' = "makedirs"
    /\ UNCHANGED <<idx, generated_count, html_content, console, run, written,
                   outAtStart, prevRun, failedAt>>
    /\ UNCHANGED <<fsVars, parVars, fnVars>>

\* a missing source folder raising instead of being skipped
WarnMissingRaises ==
    /\ pc = "loop"
    /\ idx <= NumModules
    /\ ~srcExists[DocPath(idx)]
    /\ examined' = examined \cup {idx}
    /\ pc' = "aborted"
    /\ failedAt' = [entry |-> idx, step |-> "check"]
    /\ UNCHANGED <<idx, console, generated_count, html_content, run, written,
                   outAtStart, prevRun>>
    /\ UNCHANGED <<fsVars, parVars, fnVars>>

\* a missing source folder counted as generated
WarnMissingCounts ==
    /\ pc = "loop"
    /\ idx <= NumModules
    /\ ~srcExists[DocPath(idx)]
    /\ examined' = examined \cup {idx}
    /\ console' = Append(console, Missing(idx))
    /\ generated_count' = generated_count + 1
    /\ idx' = idx + 1
    /\ UNCHANGED <<pc, html_content, run, written, outAtStart, prevRun,
                   failedAt>>
    /\ UNCHANGED <<fsVars, parVars, fnVars>>

\* os.path.exists(doc_path) is false: the warning, then the next entry
WarnMissing ==
    /\ pc = "loop"
    /\ idx <= NumModules
    /\ ~srcExists[DocPath(idx)]
    /\ examined' = examined \cup {idx}
    /\ console' = Append(console, Missing(idx))
    /\ idx' = idx + 1
    /\ UNCHANGED <<pc, generated_count, html_content, run, written,
                   outAtStart, prevRun, failedAt>>
    /\ UNCHANGED <<fsVars, parVars, fnVars>>

\* os.makedirs(module_dir, exist_ok=True) succeeds
MakeDirs ==
    /\ pc = "makedirs"
    /\ outDir' = [outDir EXCEPT ![ModuleDir(idx)] = TRUE]
    /\ pc' = "generate"
    /\ UNCHANGED <<srcExists, readme, outFile>>
    /\ UNCHANGED <<idx, generated_count, html_content, console, run,
                   examined, written, outAtStart, prevRun, failedAt>>
    /\ UNCHANGED <<parVars, fnVars>>

\* os.makedirs raises: the exception leaves main()
MakeDirsFail ==
    /\ pc = "makedirs"
    /\ pc' = "aborted"
    /\ failedAt' = [entry |-> idx, step |-> "makedirs"]
    /\ UNCHANGED <<idx, generated_count, html_content, console, run,
                   examined, written, outAtStart, prevRun>>
    /\ UNCHANGED <<fsVars, parVars, fnVars>>

\* html_content = create_module_page(folder_name, module_info, doc_path)
Generate ==
    /\ pc = "generate"
    /\ html_content' = create_module_page(idx, readme[DocPath(idx)])
    /\ pc' = "write"
    /\ UNCHANGED <<idx, generated_count, console, run, examined, written,
                   outAtStart, prevRun, failedAt>>
    /\ UNCHANGED <<fsVars, parVars, fnVars>>

\* reading an existing README.md raises inside create_module_page
GenerateFail ==
    /\ pc = "generate"
    /\ readme[DocPath(idx)] # NoFile
    /\ pc' = "aborted"
    /\ failedAt' = [entry |-> idx, step |-> "generate"]
    /\ UNCHANGED <<idx, generated_count, html_content, console, run,
                   examined, written, outAtStart, prevRun>>
    /\ UNCHANGED <<fsVars, parVars, fnVars>>

\* open(output_file, 'w') and f.write(html_content) succeed
WriteFile ==
    /\ pc = "write"
    /\ outFile' = [outFile EXCEPT ![ModuleDir(idx)] =
                       FileAfterWrite(outFile[ModuleDir(idx)], html_content)]
    /\ written' = [written EXCEPT ![ModuleDir(idx)] = @ + 1]
    /\ pc' = "notice"
    /\ UNCHANGED <<srcExists, readme, outDir>>
    /\ UNCHANGED <<idx, generated_count, html_content, console, run,
                   examined, outAtStart, prevRun, failedAt>>
    /\ UNCHANGED <<parVars, fnVars>>

\* a failed write caught and skipped: the loop goes on with the next entry
WriteFailSwallowed ==
    /\ pc = "write"
    /\ \E f \in {outFile[ModuleDir(idx)], Partial} :
           outFile' = [outFile EXCEPT ![ModuleDir(idx)] = f]
    /\ idx' = idx + 1
    /\ pc' = "loop"
    /\ UNCHANGED <<srcExists, readme, outDir>>
    /\ UNCHANGED <<generated_count, html_content, console, run, examined,
                   written, outAtStart, prevRun, failedAt>>
    /\ UNCHANGED <<parVars, fnVars>>

\* open raises (the file is as it was) or f.write raises after the file was
\* truncated (the file is cut short)
WriteFail ==
    /\ pc = "write"
    /\ \E f \in {outFile[ModuleDir(idx)], Partial} :
           outFile' = [outFile EXCEPT ![ModuleDir(idx)] = f]
    /\ pc' = "aborted"
    /\ failedAt' = [entry |-> idx, step |-> "write"]
    /\ UNCHANGED <<srcExists, readme, outDir>>
    /\ UNCHANGED <<idx, generated_count, html_content, console, run,
                   examined, written, outAtStart, prevRun>>
    /\ UNCHANGED <<parVars, fnVars>>

\* print(Generated ...); generated_count += 1; the next entry
Notice ==
    /\ pc = "notice"
    /\ console' = Append(console, Generated(idx))
    /\ generated_count' = generated_count + 1
    /\ idx' = idx + 1
    /\ pc' = "loop"
    /\ UNCHANGED <<html_content, run, examined, written, outAtStart, prevRun,
                   failedAt>>
    /\ UNCHANGED <<fsVars, parVars, fnVars>>

\* the table is exhausted: the summary line, and main() returns
Summary ==
    /\ pc = "loop"
    /\ idx = NumModules + 1
    /\ console' = Append(console, SummaryLine(generated_count))
    /\ pc' = "done"
    /\ UNCHANGED <<idx, generated_count, html_content, run, examined,
                   written, outAtStart, prevRun, failedAt>>
    /\ UNCHANGED <<fsVars, parVars, fnVars>>

\* the script is run again on the filesystem the previous run left
RunAgain ==
    /\ pc \in {"done", "aborted"}
    /\ run < MaxRuns
    /\ run' = run + 1
    /\ prevRun' = IF pc = "done"
                  THEN [completed |-> TRUE, dir |-> outDir, file |-> outFile,
                        count |-> generated_count, console |-> console,
                        wrote |-> {p \in Paths : written[p] > 0}]
                  ELSE NoRun
    /\ pc' = "start"
    /\ idx' = 0
    /\ html_content' = NoPage
    /\ generated_count' = 0
    /\ console' = << >>
    /\ examined' = {}
    /\ written' = [p \in Paths |-> 0]
    /\ outAtStart' = [dir |-> outDir, file |-> outFile]
    /\ failedAt' = NoFailure
    /\ UNCHANGED <<fsVars, parVars, fnVars>>

Next ==
    \/ Start
    \/ CheckPresent
    \/ WarnMissing
    \/ MakeDirs
    \/ MakeDirsFail
    \/ Generate
    \/ GenerateFail
    \/ WriteFile
    \/ WriteFail
    \/ Notice
    \/ Summary
    \/ RunAgain

Spec ==
    Init /\ [][Next]_vars

\* the interpreter keeps executing main() until it returns or raises
SpecLive ==
    Spec /\ WF_vars(Next)

----------------------------------------------------------------------------
(* The loop bodies of the table entries run as interleaved tasks: every    *)
(* task has the locals of one iteration (module_dir, html_content) and     *)
(* performs the steps of the loop body of main() in their order.           *)

InitPar ==
    /\ InitFs
    /\ InitMainVars
    /\ ppc = [i \in Modules |-> "check"]
    /\ phtml = [i \in Modules |-> NoPage]
    /\ InitFnVars

PCheckPresent(i) ==
    /\ ppc[i] = "check"
    /\ srcExists[DocPath(i)]
    /\ examined' = examined \cup {i}
    /\ ppc' = [ppc EXCEPT ![i] = "makedirs"]
    /\ UNCHANGED <<pc, idx, generated_count, html_content, console, run,
                   written, outAtStart, prevRun, failedAt, phtml>>
    /\ UNCHANGED <<fsVars, fnVars>>

PWarnMissing(i) ==
    /\ ppc[i] = "check"
    /\ ~srcExists[DocPath(i)]
    /\ examined' = examined \cup {i}
    /\ console' = Append(console, Missing(i))
    /\ ppc' = [ppc EXCEPT ![i] = "done"]
    /\ UNCHANGED <<pc, idx, generated_count, html_content, run, written,
                   outAtStart, prevRun, failedAt, phtml>>
    /\ UNCHANGED <<fsVars, fnVars>>

PMakeDirs(i) ==
    /\ ppc[i] = "makedirs"
    /\ outDir' = [outDir EXCEPT ![ModuleDir(i)] = TRUE]
    /\ ppc' = [ppc EXCEPT ![i] = "generate"]
    /\ UNCHANGED <<srcExists, readme, outFile, phtml>>
    /\ UNCHANGED <<mainVars, fnVars>>

PGenerate(i) ==
    /\ ppc[i] = "generate"
    /\ phtml' = [phtml EXCEPT ![i] = create_module_page(i, readme[DocPath(i)])]
    /\ ppc' = [ppc EXCEPT ![i] = "write"]
    /\ UNCHANGED <<fsVars, mainVars, fnVars>>

PWriteFile(i) ==
    /\ ppc[i] = "write"
    /\ outFile' = [outFile EXCEPT ![ModuleDir(i)] =
                       FileAfterWrite(outFile[ModuleDir(i)], phtml[i])]
    /\ written' = [written EXCEPT ![ModuleDir(i)] = @ + 1]
    /\ ppc' = [ppc EXCEPT ![i] = "notice"]
    /\ UNCHANGED <<srcExists, readme, outDir, phtml>>
    /\ UNCHANGED <<pc, idx, generated_count, html_content, console, run,
                   examined, outAtStart, prevRun, failedAt>>
    /\ UNCHANGED fnVars

PNotice(i) ==
    /\ ppc[i] = "notice"
    /\ console' = Append(console, Generated(i))
    /\ generated_count' = generated_count + 1
    /\ ppc' = [ppc EXCEPT ![i] = "done"]
    /\ UNCHANGED <<pc, idx, html_content, run, examined, written,
                   outAtStart, prevRun, failedAt, phtml>>
    /\ UNCHANGED <<fsVars, fnVars>>

\* every entry has been processed: the summary line
PSummary ==
    /\ pc = "start"
    /\ \A i \in Modules : ppc[i] = "done"
    /\ console' = Append(console, SummaryLine(generated_count))
    /\ pc' = "done"
    /\ UNCHANGED <<idx, generated_count, html_content, run, examined,
                   written, outAtStart, prevRun, failedAt>>
    /\ UNCHANGED <<fsVars, parVars, fnVars>>

NextPar ==
    \/ \E i \in Modules :
        \/ PCheckPresent(i)
        \/ PWarnMissing(i)
        \/ PMakeDirs(i)
        \/ PGenerate(i)
        \/ PWriteFile(i)
        \/ PNotice(i)
    \/ PSummary

SpecPar ==
    InitPar /\ [][NextPar]_vars

----------------------------------------------------------------------------
(* The extraction functions applied to a document text, in the order of    *)
(* create_module_page.                                                     *)

InitFn ==
    /\ srcExists = [p \in Paths |-> FALSE]
    /\ readme = [p \in Paths |-> NoFile]
    /\ outDir = [p \in Paths |-> FALSE]
    /\ outFile = [p \in Paths |-> NoFile]
    /\ InitMainVars
    /\ InitParVars
    /\ content \in Docs
    /\ overview = << >>
    /\ features = << >>
    /\ api_endpoints = << >>
    /\ applied = {}

\* overview = extract_overview(content)
CallExtractOverview ==
    /\ applied = {}
    /\ overview' = extract_overview(content)
    /\ applied' = {"overview"}
    /\ UNCHANGED <<content, features, api_endpoints>>
    /\ UNCHANGED <<fsVars, mainVars, parVars>>

\* features = extract_features(content)
CallExtractFeatures ==
    /\ applied = {"overview"}
    /\ features' = extract_features(content)
    /\ applied' = {"overview", "features"}
    /\ UNCHANGED <<content, overview, api_endpoints>>
    /\ UNCHANGED <<fsVars, mainVars, parVars>>

\* api_endpoints = extract_api_endpoints(content)
CallExtractApi ==
    /\ applied = {"overview", "features"}
    /\ api_endpoints' = extract_api_endpoints(content)
    /\ applied' = {"overview", "features", "api"}
    /\ UNCHANGED <<content, overview, features>>
    /\ UNCHANGED <<fsVars, mainVars, parVars>>

NextFn ==
    \/ CallExtractOverview
    \/ CallExtractFeatures
    \/ CallExtractApi

SpecFn ==
    InitFn /\ [][NextFn]_vars

----------------------------------------------------------------------------
(* Properties of the driver.                                               *)

\* the lines of the given kind on the console
Lines(kind) ==
    {k \in 1..Len(console) : console[k].kind = kind}

\* the warnings that name the folder of entry i
WarningsNaming(i) ==
    {k \in Lines("Missing") : console[k].what = FolderName(i)}

\* the table entries whose source folder exists
Present ==
    {i \in Modules : srcExists[FolderName(i)]}

\* the page main() writes for entry i
PageOf(i) ==
    create_module_page(i, readme[FolderName(i)])

\* output_dir/<id>/ is as it was when the run started
Untouched(i) ==
    /\ outDir[FolderName(i)] = outAtStart.dir[FolderName(i)]
    /\ outFile[FolderName(i)] = outAtStart.file[FolderName(i)]
    /\ written[FolderName(i)] = 0

\* C1: in a run of main(), once the loop has passed an entry whose source
\* folder existed, output_dir/<id> exists and output_dir/<id>/index.html has
\* been written exactly once and holds the newly generated page, whatever was
\* there before; a completed run has written one file for each such entry and
\* no other file.
C1_OneFilePerPresentModule ==
    /\ \A i \in Modules :
           (i < idx /\ srcExists[FolderName(i)]) =>
               /\ outDir[FolderName(i)]
               /\ outFile[FolderName(i)] = PageOf(i)
               /\ written[FolderName(i)] = 1
    /\ pc = "done" =>
           \A i \in Modules :
               written[FolderName(i)] = IF i \in Present THEN 1 ELSE 0

\* a completed run that created an output directory and overwrote an
\* existing index.html
C1_Witness ==
    /\ pc = "done"
    /\ \E i \in Present :
           /\ ~outAtStart.dir[FolderName(i)]
           /\ outFile[FolderName(i)] = PageOf(i)
    /\ \E i \in Present :
           /\ outAtStart.file[FolderName(i)] = Stale
           /\ outFile[FolderName(i)] = PageOf(i)

C2_MissingSkipped ==
    /\ \A i \in Modules \ Present :
           /\ Untouched(i)
           /\ Cardinality(WarningsNaming(i)) = IF i \in examined THEN 1 ELSE 0
    /\ pc = "done" => examined = Modules
    /\ pc = "aborted" => failedAt.entry \in Present

\* C2: for every entry whose source folder is absent the run changes nothing
\* under output_dir/<id>/ and emits exactly one warning naming the id; the
\* loop goes on, and every started run reaches the summary, unless a
\* filesystem operation on an entry whose folder exists raises; with every
\* source folder missing the run always reaches the summary.
C2_MissingNeverStopsRun ==
    /\ [](C2_MissingSkipped)
    /\ (pc = "start") ~> (pc = "done" \/ (pc = "aborted" /\ failedAt.entry \in Present))
    /\ (pc = "start" /\ Present = {}) ~> (pc = "done")

\* a completed run in which every source folder was missing and an old
\* index.html was left alone
C2_Witness ==
    /\ pc = "done"
    /\ Present = {}
    /\ \E i \in Modules : outFile[FolderName(i)] = Stale
    /\ \A i \in Modules : Cardinality(WarningsNaming(i)) = 1

C4_AbortAtFailure ==
    pc = "aborted" =>
        /\ failedAt.entry = idx
        /\ examined = 1..idx
        /\ \A j \in Modules : j > idx => Untouched(j)
        /\ Len(console) = idx - 1
        /\ Lines("Summary") = {}
        /\ generated_count = Cardinality({j \in Present : j < idx})
        /\ \A j \in Present : j < idx => outFile[FolderName(j)] = PageOf(j)
        /\ written[FolderName(idx)] = 0
        /\ failedAt.step \in {"generate", "write"} => outDir[FolderName(idx)]
        /\ failedAt.step = "makedirs" =>
               outDir[FolderName(idx)] = outAtStart.dir[FolderName(idx)]

\* the write of the second entry failed after the first entry's page was
\* written, in a directory this run created
C4_Witness ==
    /\ pc = "aborted"
    /\ failedAt.step = "write"
    /\ failedAt.entry > 1
    /\ written[FolderName(1)] = 1
    /\ ~outAtStart.dir[FolderName(idx)]
    /\ outFile[FolderName(idx)] = Partial

\* the fragments create_module_page puts in the page when nothing is found
FeaturesFallbackFragment ==
    FEATURES_OPEN \o FEATURES_FALLBACK \o DIV_CLOSE

ApiFallbackFragment ==
    API_OPEN \o API_FALLBACK \o DIV_CLOSE

\* the entries whose folder exists without a README.md, or with an empty one
NoReadme ==
    {i \in Present : readme[FolderName(i)] = NoFile}

EmptyReadme ==
    {i \in Present : readme[FolderName(i)] = TextFile(<< >>)}

\* C8: an entry whose source folder has no README.md is processed like one
\* whose README.md is empty: the page is written, the notice is emitted and
\* not the warning, and the page holds the overview fallback sentence, the
\* production-ready features fragment and the fallback API fragment.
C8_MissingReadmeIsEmpty ==
    \A i \in NoReadme \cup EmptyReadme :
        /\ written[FolderName(i)] = 1 =>
               /\ outFile[FolderName(i)].overview = OVERVIEW_FALLBACK
               /\ outFile[FolderName(i)].features = FeaturesFallbackFragment
               /\ outFile[FolderName(i)].api_endpoints = ApiFallbackFragment
        /\ i < idx =>
               /\ written[FolderName(i)] = 1
               /\ console[i] = Generated(i)
               /\ WarningsNaming(i) = {}

\* a completed run over a folder without README.md and a folder with an
\* empty one, whose pages differ in nothing but the entry
C8_Witness ==
    /\ pc = "done"
    /\ \E i \in NoReadme, j \in EmptyReadme :
           /\ outFile[FolderName(i)].overview = outFile[FolderName(j)].overview
           /\ outFile[FolderName(i)].features = outFile[FolderName(j)].features
           /\ outFile[FolderName(i)].api_endpoints
                  = outFile[FolderName(j)].api_endpoints
           /\ generated_count = 2

\* C9: a run completed after a completed run, the source folders and README
\* files being the same, leaves every output file and directory as the
\* first run left it, writes the same files, and prints the same lines with
\* the same count.
C9_SecondRunIdentical ==
    (pc = "done" /\ prevRun.completed) =>
        /\ outFile = prevRun.file
        /\ outDir = prevRun.dir
        /\ {p \in Paths : written[p] > 0} = prevRun.wrote
        /\ generated_count = prevRun.count
        /\ console = prevRun.console

\* a second completed run that wrote a page over the page of the first
C9_Witness ==
    /\ pc = "done"
    /\ prevRun.completed
    /\ run > 1
    /\ \E i \in Present :
           /\ written[FolderName(i)] = 1
           /\ prevRun.file[FolderName(i)] = PageOf(i)

----------------------------------------------------------------------------
(* Properties of the interleaved loop bodies.                              *)

\* the result of processing every entry, as a function of the filesystem
\* the tasks started on
C10_FinalOutcome ==
    (\A i \in Modules : ppc[i] = "done") =>
        /\ \A i \in Modules :
               IF i \in Present
               THEN /\ outDir[FolderName(i)]
                    /\ outFile[FolderName(i)] = PageOf(i)
                    /\ written[FolderName(i)] = 1
               ELSE Untouched(i)
        /\ generated_count = Cardinality(Present)

\* a step changes the output of one entry only, that of the task taking the
\* step, and changes nothing below docs_dir
C10_DisjointStep ==
    /\ srcExists' = srcExists
    /\ readme' = readme
    /\ \A i \in Modules :
           (outDir'[FolderName(i)] # outDir[FolderName(i)]
                \/ outFile'[FolderName(i)] # outFile[FolderName(i)])
           => ppc'[i] # ppc[i]

----------------------------------------------------------------------------
(* Properties of the extraction functions.                                 *)

\* the positions at which the Overview marker occurs in c
MarkerPositions(c) ==
    {i \in 0..(Len(c) - Len(OVERVIEW_MARKER)) :
        \A k \in 1..Len(OVERVIEW_MARKER) : c[i + k] = OVERVIEW_MARKER[k]}

\* the positions after position s at which "##" occurs in c
HeaderPositionsAfter(c, s) ==
    {j \in (s + 1)..(Len(c) - 2) : c[j + 1] = "#" /\ c[j + 2] = "#"}

\* where the Overview section of c ends: before the next "##", or at the end
SectionEnd(c) ==
    LET after == HeaderPositionsAfter(c, Min(MarkerPositions(c)))
    IN  IF after = {} THEN Len(c) ELSE Min(after)

\* the text of the Overview section of c between the first marker and the
\* end of the section, without the whitespace around it
SectionText(c) ==
    Strip(SubSeq(c, Min(MarkerPositions(c)) + Len(OVERVIEW_MARKER) + 1,
                 SectionEnd(c)))

\* T is one paragraph: not empty, no whitespace around it, no blank line, no
\* "##", not starting with a tag
IsParagraph(T) ==
    /\ T # << >>
    /\ Strip(T) = T
    /\ ~Contains(T, BLANK_LINE)
    /\ ~Contains(T, HEADER_MARK)
    /\ T[1] # "<"

\* c is "...## Overview\n" T "\n\n##..." with the marker at its first
\* occurrence and T the text up to the first blank line followed by "##"
ParagraphEnd(c) ==
    Find(c, BLANK_LINE \o HEADER_MARK,
         Min(MarkerPositions(c)) + Len(OVERVIEW_MARKER) + 1)

OverviewParagraph(c) ==
    Slice(c, Min(MarkerPositions(c)) + Len(OVERVIEW_MARKER) + 1,
          ParagraphEnd(c))

HasOneParagraphOverview(c) ==
    /\ MarkerPositions(c) # {}
    /\ MatchAt(c, NL, Min(MarkerPositions(c)) + Len(OVERVIEW_MARKER))
    /\ ParagraphEnd(c) # -1
    /\ IsParagraph(OverviewParagraph(c))

\* C5 as stated: the overview of such a document is the Overview heading
\* tag, a newline and the paragraph in a paragraph tag.
C5_HeadingAndParagraph ==
    ("overview" \in applied /\ HasOneParagraphOverview(content)) =>
        /\ overview = H2_OPEN \o OVERVIEW_WORD \o H2_CLOSE \o NL
                      \o P_OPEN \o OverviewParagraph(content) \o P_CLOSE
        /\ content = ScenarioDoc => overview = ScenarioClaimed

\* C5: for a document whose Overview section is the marker line followed by
\* one paragraph T and then a blank line and another "##" heading,
\* extract_overview returns T in a paragraph tag and nothing else: no
\* heading tag, nothing of the following section.
C5_ParagraphOnly ==
    ("overview" \in applied /\ HasOneParagraphOverview(content)) =>
        overview = P_OPEN \o OverviewParagraph(content) \o P_CLOSE

\* extract_overview applied to the document of the scenario
C5_Witness ==
    /\ "overview" \in applied
    /\ content = ScenarioDoc
    /\ HasOneParagraphOverview(content)
    /\ overview = P_OPEN \o ScenarioSentence \o P_CLOSE

\* a word occurs in c whatever the case of its letters
OccursAnyCase(c, lower, upper) ==
    \E i \in 0..(Len(c) - Len(lower)) :
        \A k \in 1..Len(lower) : c[i + k] \in {lower[k], upper[k]}

MentionsEndpoint(c) ==
    OccursAnyCase(c, <<"e","n","d","p","o","i","n","t">>, ENDPOINT_WORD)

MentionsApi(c) ==
    OccursAnyCase(c, <<"a","p","i">>, API_WORD)

\* C6 as stated: the API fragment holds the complete-documentation sentence
\* if the text contains "endpoint" in any letter case, and the fallback
\* sentence otherwise.
C6_EndpointOnly ==
    "api" \in applied =>
        IF MentionsEndpoint(content)
        THEN Contains(api_endpoints, API_COMPLETE)
        ELSE Contains(api_endpoints, API_FALLBACK)

\* C6: the API fragment holds the complete-documentation sentence if the
\* text contains "api" or "endpoint" in any letter case, and the fallback
\* sentence otherwise; it never holds both.
C6_ApiOrEndpoint ==
    "api" \in applied =>
        IF MentionsApi(content) \/ MentionsEndpoint(content)
        THEN /\ Contains(api_endpoints, API_COMPLETE)
             /\ ~Contains(api_endpoints, API_FALLBACK)
        ELSE /\ Contains(api_endpoints, API_FALLBACK)
             /\ ~Contains(api_endpoints, API_COMPLETE)

\* extract_api_endpoints applied to a text with "api" in lower case and
\* without "endpoint"
C6_Witness ==
    /\ "api" \in applied
    /\ MentionsApi(content)
    /\ ~Contains(content, API_WORD)
    /\ ~MentionsEndpoint(content)
    /\ Contains(api_endpoints, API_COMPLETE)

\* the section of the first marker, up to the next "##" or the end of the
\* text, is what extract_overview converts
C7_SectionConverted ==
    MarkerPositions(content) # {} =>
        overview = markdown_to_html(SectionText(content))

\* C7 as stated: the fallback sentence is returned exactly when the marker
\* does not occur, and otherwise the section is converted.
C7_FallbackExactlyWhenAbsent ==
    "overview" \in applied =>
        /\ (overview = OVERVIEW_FALLBACK) <=> (MarkerPositions(content) = {})
        /\ C7_SectionConverted

\* C7: extract_overview returns the fallback sentence whenever the marker
\* does not occur; when it occurs, it returns the conversion of the section
\* that starts at the first marker and ends before the next "##" (or at the
\* end of the text), marker removed and whitespace stripped, and that is the
\* fallback sentence only when the section's text is that sentence itself,
\* with or without its paragraph tag.
C7_FallbackWhenAbsent ==
    "overview" \in applied =>
        /\ MarkerPositions(content) = {} => overview = OVERVIEW_FALLBACK
        /\ C7_SectionConverted
        /\ (MarkerPositions(content) # {} /\ overview = OVERVIEW_FALLBACK) =>
               SectionText(content) \in {FallbackText, OVERVIEW_FALLBACK}

\* extract_overview applied to a text whose section is ended by a "###"
\* sub-heading and is not empty
C7_Witness ==
    /\ "overview" \in applied
    /\ MarkerPositions(content) # {}
    /\ SectionEnd(content) < Len(content)
    /\ MatchAt(content, H3_PREFIX, SectionEnd(content))
    /\ SectionText(content) # << >>
    /\ overview = P_OPEN \o SectionText(content) \o P_CLOSE

=============================================================================
